---------------------------- MODULE Spec2Model ----------------------------
(***************************************************************************)
(* A model of shpack's bundling engine (src/main.rs): the syntax-tree      *)
(* visitor, the handler that recognises the interpreter selector, include  *)
(* directives and marked command substitutions, the recursive include      *)
(* resolution with its visiting stack and visited set, and apply_edits.    *)
(*                                                                         *)
(* Text is a sequence of one-character strings (all ASCII, so a character  *)
(* is a byte and byte offsets are 0-based positions in the sequence).      *)
(* A path is a sequence of components, each a text.                        *)
(***************************************************************************)
EXTENDS Integers, Sequences, FiniteSets, TLC

VARIABLES
    shabang,    \* Bundler.shabang : Option<String>
    visiting,   \* Bundler.visiting : Vec<PathBuf>
    visited,    \* Bundler.visited : HashSet<PathBuf>
    stack,      \* the active _bundle_from_string calls, outermost first
    result,     \* what bundle() has returned, or that it is still running
    fs,         \* the files read so far: path -> document (0: not read yet)
    reads,      \* history: every fs::read_to_string made by _bundle_from_path
    execs,      \* history: every sub-command run by Command::new("bash")
    returned,   \* history: every Ok(text) returned by _bundle_from_string
    directives, \* history: every include directive whose path resolved, in
                \* the order reached, with the edit queued for it (if any)
    input,      \* the text given to bundle() and the file it came from
    ae_source,  \* apply_edits on its own: the text given
    ae_edits,   \* apply_edits on its own: the edit list given
    ae_result   \* apply_edits on its own: what it returned

vars == <<shabang, visiting, visited, stack, result, fs, reads, execs,
          returned, directives, input, ae_source, ae_edits, ae_result>>

bundlerVars == <<shabang, visiting, visited, stack, result, fs, reads, execs,
                 returned, directives, input>>

editVars == <<ae_source, ae_edits, ae_result>>

---------------------------------------------------------------------------
(* Option<T> and small sequence helpers                                    *)

None == [some |-> FALSE]

Some(v) == [some |-> TRUE, val |-> v]

Range(s) == {s[i] : i \in 1..Len(s)}

Front(s) == SubSeq(s, 1, Len(s) - 1)

Last(s) == s[Len(s)]

\* str::starts_with
starts_with(t, p) == Len(p) <= Len(t) /\ SubSeq(t, 1, Len(p)) = p

\* &s[a..b] with 0-based half-open byte offsets
Slice(t, a, b) == SubSeq(t, a + 1, b)

\* the number of (possibly overlapping) occurrences of p in t
CountOcc(t, p) ==
    Cardinality({i \in 1..(Len(t) - Len(p) + 1) : SubSeq(t, i, i + Len(p) - 1) = p})

---------------------------------------------------------------------------
(* Bounds of the model                                                     *)

\* the longest run of line breaks between a selector comment and the next node
MaxGap == 2

\* the longest stdout (in bytes) a sub-command run at bundle time produces
MaxStdout == 2

\* the longest edit list given to apply_edits on its own
MaxEdits == 3

---------------------------------------------------------------------------
(* The syntax tree of a document, as tree_sitter hands it to the handler.  *)
(* A document is [source, nodes]; nodes[1] is the root ("program"), every  *)
(* other node names its parent; nodes are stored in document order.        *)

Nd(kind, s, e, par, named) ==
    [kind |-> kind, start |-> s, end |-> e, parent |-> par, named |-> named]

\* the nodes of a construct placed at byte `off`, as nodes base+1.. of the
\* document, its outermost nodes (parent 0) becoming children of `top`
Embed(nodes, off, base, top) ==
    [i \in 1..Len(nodes) |->
        Nd(nodes[i].kind, nodes[i].start + off, nodes[i].end + off,
           IF nodes[i].parent = 0 THEN top ELSE nodes[i].parent + base,
           nodes[i].named)]

\* whitespace between constructs: text without a node
Ws(t) == [text |-> t, nodes |-> <<>>]

\* a comment: `#...` up to the end of the line
Comment(t) == [text |-> t, nodes |-> <<Nd("comment", 0, Len(t), 0, TRUE)>>]

\* a bare word
Word(t) == [text |-> t, nodes |-> <<Nd("word", 0, Len(t), 0, TRUE)>>]

\* a double-quoted literal: (string " (string_content) ")
Str(t) ==
    [text |-> <<"\"">> \o t \o <<"\"">>,
     nodes |-> <<Nd("string", 0, Len(t) + 2, 0, TRUE),
                 Nd("\"", 0, 1, 1, FALSE),
                 Nd("string_content", 1, Len(t) + 1, 1, TRUE),
                 Nd("\"", Len(t) + 1, Len(t) + 2, 1, FALSE)>>]

\* a single-quoted literal: (raw_string)
RawStr(t) ==
    [text |-> <<"'">> \o t \o <<"'">>,
     nodes |-> <<Nd("raw_string", 0, Len(t) + 2, 0, TRUE)>>]

\* a double-quoted text that holds a construct: (string " <inner> ")
StrWith(inner) ==
    [text |-> <<"\"">> \o inner.text \o <<"\"">>,
     nodes |-> <<Nd("string", 0, Len(inner.text) + 2, 0, TRUE),
                 Nd("\"", 0, 1, 1, FALSE)>>
               \o Embed(inner.nodes, 1, 2, 1)
               \o <<Nd("\"", Len(inner.text) + 1, Len(inner.text) + 2, 1, FALSE)>>]

\* the statement terminator `;`: an anonymous node
Semi == [text |-> <<";">>, nodes |-> <<Nd(";", 0, 1, 0, FALSE)>>]

\* a variable expansion `$v`: (simple_expansion $ (variable_name))
Expansion(t) ==
    [text |-> <<"$">> \o t,
     nodes |-> <<Nd("simple_expansion", 0, Len(t) + 1, 0, TRUE),
                 Nd("$", 0, 1, 1, FALSE),
                 Nd("variable_name", 1, Len(t) + 1, 1, TRUE)>>]

\* a command of one word: (command (command_name (word)))
Command(w) ==
    [text |-> w,
     nodes |-> <<Nd("command", 0, Len(w), 0, TRUE),
                 Nd("command_name", 0, Len(w), 1, TRUE),
                 Nd("word", 0, Len(w), 2, TRUE)>>]

\* a command with one argument: (command (command_name (word)) <arg>)
CommandArg(w, arg) ==
    [text |-> w \o <<" ">> \o arg.text,
     nodes |-> <<Nd("command", 0, Len(w) + 1 + Len(arg.text), 0, TRUE),
                 Nd("command_name", 0, Len(w), 1, TRUE),
                 Nd("word", 0, Len(w), 2, TRUE)>>
               \o Embed(arg.nodes, Len(w) + 1, 3, 1)]

\* a command with two arguments: (command (command_name (word)) <a1> <a2>)
CommandArgs(w, a1, a2) ==
    [text |-> w \o <<" ">> \o a1.text \o <<" ">> \o a2.text,
     nodes |-> <<Nd("command", 0, Len(w) + 2 + Len(a1.text) + Len(a2.text),
                    0, TRUE),
                 Nd("command_name", 0, Len(w), 1, TRUE),
                 Nd("word", 0, Len(w), 2, TRUE)>>
               \o Embed(a1.nodes, Len(w) + 1, 3, 1)
               \o Embed(a2.nodes, Len(w) + 2 + Len(a1.text),
                        3 + Len(a1.nodes), 1)]

\* a command substitution: (command_substitution $( <inner> ))
Subst(inner) ==
    [text |-> <<"$", "(">> \o inner.text \o <<")">>,
     nodes |-> <<Nd("command_substitution", 0, Len(inner.text) + 3, 0, TRUE),
                 Nd("$(", 0, 2, 1, FALSE)>>
               \o Embed(inner.nodes, 2, 2, 1)
               \o <<Nd(")", Len(inner.text) + 2, Len(inner.text) + 3, 1, FALSE)>>]

RECURSIVE Layout(_, _, _)
Layout(pieces, src, nodes) ==
    IF pieces = <<>> THEN [source |-> src, nodes |-> nodes]
    ELSE Layout(Tail(pieces), src \o Head(pieces).text,
                nodes \o Embed(Head(pieces).nodes, Len(src), Len(nodes), 1))

\* parse_file: the tree of the text made of `pieces`, top-level constructs
\* being children of the root node, which spans the whole text
Document(pieces) ==
    LET d == Layout(pieces, <<>>, <<Nd("program", 0, 0, 0, TRUE)>>)
    IN  [source |-> d.source,
         nodes  |-> [d.nodes EXCEPT ![1].end = Len(d.source)]]

\* Node::kind, Node::start_byte, Node::end_byte
kind(d, n) == d.nodes[n].kind

start_byte(d, n) == d.nodes[n].start

end_byte(d, n) == d.nodes[n].end

\* GetText::text: &source[start_byte..end_byte]
text(d, n) == Slice(d.source, start_byte(d, n), end_byte(d, n))

\* a faulty variant of row: every node is taken to start on the first line
row_ignored(d, n) == 0

\* Node::start_position().row: the line breaks before the node's first byte
row(d, n) ==
    Cardinality({i \in 1..start_byte(d, n) : d.source[i] = "\n"})

\* Node::parent (0: none)
parent(d, n) == d.nodes[n].parent

\* Node::children, in document order
children(d, n) ==
    SelectSeq([i \in 1..Len(d.nodes) |-> i], LAMBDA i : d.nodes[i].parent = n)

\* Node::child(k), k counted from 0 (0: none)
child(d, n, k) ==
    IF k < Len(children(d, n)) THEN children(d, n)[k + 1] ELSE 0

\* the siblings that follow node n, in document order
following(d, n) ==
    IF parent(d, n) = 0 THEN <<>>
    ELSE SelectSeq(children(d, parent(d, n)), LAMBDA i : i > n)

\* Node::next_sibling (0: none)
next_sibling(d, n) ==
    IF following(d, n) = <<>> THEN 0 ELSE Head(following(d, n))

\* Node::next_named_sibling (0: none)
next_named_sibling(d, n) ==
    LET named == SelectSeq(following(d, n), LAMBDA i : d.nodes[i].named)
    IN  IF named = <<>> THEN 0 ELSE Head(named)

\* visit_node, after f(node) and the visit of node n's whole subtree: the
\* loop of the closest enclosing visit_node that has a child left (0: none)
RECURSIVE resume(_, _)
resume(d, n) ==
    IF parent(d, n) = 0 THEN 0
    ELSE IF next_sibling(d, n) # 0 THEN next_sibling(d, n)
    ELSE resume(d, parent(d, n))

\* a faulty variant of visit_node: the children of a node are passed over
visit_node_flat(d, n) == resume(d, n)

\* visit_node: the node f is called on after f(n) returned Ok: n's first
\* child, or else the next node of an enclosing loop (0: the visit is over)
visit_node(d, n) ==
    IF children(d, n) # <<>> THEN Head(children(d, n)) ELSE resume(d, n)

---------------------------------------------------------------------------
(* Paths and the file system.  A canonical path is the sequence of its     *)
(* components from the file-system root.                                   *)

\* Bundler.path_relative_to: the canonicalized root directory /r
RootDir == << <<"r">> >>

\* the files that exist: /r/a, /r/d/b inside the root, /o/x outside of it
FileA == << <<"r">>, <<"a">> >>

FileB == << <<"r">>, <<"d">>, <<"b">> >>

FileX == << <<"o">>, <<"x">> >>

Files == {FileA, FileB, FileX}

\* the directories that exist: every proper prefix of a file's path
Dirs == UNION {{SubSeq(f, 1, k) : k \in 0..(Len(f) - 1)} : f \in Files}

\* the components of a path text, split at "/"
\* (in this and the other recursive definitions the arguments are bound to
\* their values first, as in a call by value, so that each is computed once)
RECURSIVE split(_, _, _)
split(text0, cur0, out0) ==
    CHOOSE r \in
        {IF t = <<>> THEN (IF cur = <<>> THEN out ELSE Append(out, cur))
         ELSE IF Head(t) = "/"
              THEN split(Tail(t), <<>>,
                         IF cur = <<>> THEN out ELSE Append(out, cur))
              ELSE split(Tail(t), Append(cur, Head(t)), out)
           : t \in {text0}, cur \in {cur0}, out \in {out0}} : TRUE

\* Path::join: an absolute argument replaces cwd, a relative one extends it
join(cwd, t) ==
    IF t # <<>> /\ Head(t) = "/" THEN split(t, <<>>, <<>>)
    ELSE cwd \o split(t, <<>>, <<>>)

\* the walk of canonicalize from directory `at`: "." stays, ".." goes up,
\* a name goes down; every step but the last must be in a directory
RECURSIVE walk(_, _)
walk(comps0, at0) ==
    CHOOSE r \in
        {IF comps = <<>>
         THEN (IF at \in Files \cup Dirs THEN Some(at) ELSE None)
         ELSE IF at \notin Dirs THEN None
         ELSE IF Head(comps) = <<".">> THEN walk(Tail(comps), at)
         ELSE IF Head(comps) = <<".", ".">>
              THEN walk(Tail(comps), IF at = <<>> THEN at ELSE Front(at))
         ELSE walk(Tail(comps), Append(at, Head(comps)))
           : comps \in {comps0}, at \in {at0}} : TRUE

\* Path::canonicalize: Some(canonical path), or None when it does not exist
canonicalize(p) == walk(p, <<>>)

\* a faulty variant of strip_prefix: the components of base are not compared
strip_prefix_by_length(path, base) ==
    IF Len(base) <= Len(path)
    THEN Some(SubSeq(path, Len(base) + 1, Len(path)))
    ELSE None

\* Path::strip_prefix: Some(the components after base), or None
strip_prefix(path, base) ==
    IF Len(base) <= Len(path) /\ SubSeq(path, 1, Len(base)) = base
    THEN Some(SubSeq(path, Len(base) + 1, Len(path)))
    ELSE None

\* Path::to_str of a relative path: its components joined by "/"
RECURSIVE to_str(_)
to_str(p) ==
    IF p = <<>> THEN <<>>
    ELSE IF Len(p) = 1 THEN p[1]
    ELSE p[1] \o <<"/">> \o to_str(Tail(p))

\* Path::parent: Some(the directory), or None for the file-system root
path_parent(p) == IF p = <<>> THEN None ELSE Some(Front(p))

\* a faulty variant of contains: only the first file of the run is compared
contains_outermost(stk, path) == stk # <<>> /\ Head(stk) = path

\* a faulty variant of contains: only the file being read right now is compared
contains_innermost(stk, path) == stk # <<>> /\ Last(stk) = path

\* Vec::contains on visiting
contains(stk, path) == path \in Range(stk)

---------------------------------------------------------------------------
(* BASE64_STANDARD.encode: three bytes to four characters, "=" padding     *)

B64Alphabet ==
    <<"A","B","C","D","E","F","G","H","I","J","K","L","M","N","O","P",
      "Q","R","S","T","U","V","W","X","Y","Z","a","b","c","d","e","f",
      "g","h","i","j","k","l","m","n","o","p","q","r","s","t","u","v",
      "w","x","y","z","0","1","2","3","4","5","6","7","8","9","+","/">>

B64Char(v) == B64Alphabet[(v % 64) + 1]

RECURSIVE encode(_)
encode(b) ==
    IF b = <<>> THEN <<>>
    ELSE IF Len(b) = 1
         THEN <<B64Char(b[1] \div 4), B64Char((b[1] % 4) * 16), "=", "=">>
    ELSE IF Len(b) = 2
         THEN <<B64Char(b[1] \div 4),
                B64Char((b[1] % 4) * 16 + (b[2] \div 16)),
                B64Char((b[2] % 16) * 4), "=">>
    ELSE <<B64Char(b[1] \div 4),
           B64Char((b[1] % 4) * 16 + (b[2] \div 16)),
           B64Char((b[2] % 16) * 4 + (b[3] \div 64)),
           B64Char(b[3])>> \o encode(SubSeq(b, 4, Len(b)))

\* the bytes a sub-command may write to stdout: "h" and "i"
StdoutBytes == {104, 105}

RECURSIVE SeqsUpTo(_, _)
SeqsUpTo(S, n) ==
    IF n = 0 THEN {<<>>}
    ELSE SeqsUpTo(S, n - 1)
         \cup {Append(q, x) : q \in SeqsUpTo(S, n - 1), x \in S}

\* Output.stdout of a sub-command: any byte string up to MaxStdout bytes
Stdouts == SeqsUpTo(StdoutBytes, MaxStdout)

\* ExitStatus: 0 is success
ExitStatuses == {0, 1}

\* a faulty variant of success: the exit status is not looked at
success_always(status) == TRUE

\* ExitStatus::success
success(status) == status = 0

---------------------------------------------------------------------------
(* The Edit Model                                                          *)

\* struct Edit
Edit(s, e, c) == [start_byte |-> s, end_byte |-> e, new_content |-> c]

\* one step of the stable sort: e goes after every edit whose key is <= its own
RECURSIVE insert_by_key(_, _)
insert_by_key(sorted0, e0) ==
    CHOOSE r \in
        {IF sorted = <<>> THEN <<e>>
         ELSE IF Last(sorted).start_byte <= e.start_byte THEN Append(sorted, e)
         ELSE Append(insert_by_key(Front(sorted), e), Last(sorted))
           : sorted \in {sorted0}, e \in {e0}} : TRUE

\* edits.sort_by_key(|e| e.start_byte): stable, equal keys keep their order
RECURSIVE sort_by_key(_)
sort_by_key(edits0) ==
    CHOOSE r \in
        {IF edits = <<>> THEN <<>>
         ELSE insert_by_key(sort_by_key(Front(edits)), Last(edits))
           : edits \in {edits0}} : TRUE

\* a faulty variant of not_disjoint: the loop stops one pair early
not_disjoint_but_last(sorted) ==
    \E i \in 1..(Len(sorted) - 2) : sorted[i].end_byte > sorted[i + 1].start_byte

\* the loop of apply_edits over adjacent pairs of the sorted list
not_disjoint(sorted) ==
    \E i \in 1..(Len(sorted) - 1) : sorted[i].end_byte > sorted[i + 1].start_byte

\* String::replace_range(a..b, c)
replace_range(src, a, b, c) ==
    SubSeq(src, 1, a) \o c \o SubSeq(src, b + 1, Len(src))

\* the second loop of apply_edits: left to right, with the running offset.
\* replace_range panics on a range that is reversed or not within the text
\* (a negative bound, cast to usize, is beyond every text).
RECURSIVE replace_all(_, _, _)
replace_all(src0, edits0, edit_offset0) ==
    CHOOSE r \in
        {IF edits = <<>> THEN [tag |-> "ok", text |-> src]
         ELSE IF \/ Head(edits).start_byte + edit_offset < 0
                 \/ Head(edits).end_byte < Head(edits).start_byte
                 \/ Head(edits).end_byte + edit_offset > Len(src)
              THEN [tag |-> "panic"]
         ELSE replace_all(
                 replace_range(src, Head(edits).start_byte + edit_offset,
                               Head(edits).end_byte + edit_offset,
                               Head(edits).new_content),
                 Tail(edits),
                 edit_offset + Len(Head(edits).new_content)
                     - (Head(edits).end_byte - Head(edits).start_byte))
           : src \in {src0}, edits \in {edits0},
             edit_offset \in {edit_offset0}} : TRUE

\* apply_edits.  `edits.len() - 1` underflows on an empty list: a panic in a
\* debug build, and in a release build the wrapped bound makes edits[0]
\* index out of bounds, a panic too.
apply_edits(src, edits) ==
    IF edits = <<>> THEN [tag |-> "panic"]
    ELSE CHOOSE r \in
            {IF not_disjoint(sorted)
             THEN [tag |-> "err", kind |-> "EditsOverlap"]
             ELSE replace_all(src, sorted, 0)
               : sorted \in {sort_by_key(edits)}} : TRUE

---------------------------------------------------------------------------
(* The documents of the model: the root document given to bundle() and the *)
(* contents the three files may have.  A document is named by              *)
(* [sel, gap, body]: its selector comment ("a": `#!a`, "b": `#!b`, "none"),*)
(* the number of line breaks that follow the selector, and its body.       *)

NL == <<"\n">>

RECURSIVE NLs(_)
NLs(n) == IF n = 0 THEN <<>> ELSE NL \o NLs(n - 1)

\* the exact text of the marker comment (line 258)
Marker ==
    <<"#", " ", "b", "u", "i", "l", "d", ":", " ", "i", "n", "l", "i", "n", "e">>

Dot == <<".">>

SourceWord == <<"s", "o", "u", "r", "c", "e">>

\* constructs, one per line
RECURSIVE Lines(_)
Lines(items) ==
    IF items = <<>> THEN <<>>
    ELSE IF Len(items) = 1 THEN items
    ELSE <<Head(items), Ws(NL)>> \o Lines(Tail(items))

\* `e $(c) # build: inline`
MarkedSub ==
    <<CommandArg(<<"e">>, Subst(Command(<<"c">>))), Ws(<<" ">>), Comment(Marker)>>

Body(name) ==
    CASE name = "none"   -> <<>>
      [] name = "e"      -> <<Command(<<"e">>)>>
      [] name = "f"      -> <<Command(<<"f">>)>>
      [] name = "g"      -> <<Command(<<"g">>)>>
      [] name = "h"      -> <<Command(<<"h">>)>>
      [] name = "a"      -> <<CommandArg(Dot, Word(<<"a">>))>>
      [] name = "a a"    -> Lines(<<CommandArg(Dot, Word(<<"a">>)),
                                    CommandArg(SourceWord, Str(<<".", "/", "a">>))>>)
      [] name = "a b"    -> Lines(<<CommandArg(Dot, Word(<<"a">>)),
                                    CommandArg(Dot, Word(<<"d", "/", "b">>))>>)
      [] name = "b a"    -> Lines(<<CommandArg(Dot, Word(<<"d", "/", "b">>)),
                                    CommandArg(SourceWord, Word(<<"a">>))>>)
      [] name = "b"      -> <<CommandArg(Dot, Word(<<"d", "/", "b">>))>>
      [] name = "x"      -> <<CommandArg(Dot, Word(<<"/", "o", "/", "x">>))>>
      [] name = "n"      -> <<CommandArg(Dot, Word(<<"n">>))>>
      [] name = "d"      -> <<CommandArg(Dot, Word(<<"d">>))>>
      [] name = "sub"    -> MarkedSub
      [] name = "unmarked" -> <<CommandArg(<<"e">>, Subst(Command(<<"c">>)))>>
      [] name = "other comment" ->
            <<CommandArg(<<"e">>, Subst(Command(<<"c">>))), Ws(<<" ">>),
              Comment(<<"#", "x">>)>>
      [] name = "sel"    -> <<Comment(<<"#", "!", "a">>)>>
      [] name = "late sel" ->
            Lines(<<Command(<<"e">>), Comment(<<"#", "!", "a">>)>>)
      [] name = "end sel" ->
            <<Command(<<"e">>), Ws(<<" ">>), Comment(<<"#", "!", "a">>)>>
      [] name = "raw"    -> <<CommandArg(Dot, RawStr(<<"a">>))>>
      [] name = "expansion" -> <<CommandArg(Dot, Expansion(<<"v">>))>>
      [] name = "bare"   -> <<Command(Dot)>>
      [] name = "quoted expansion" ->
            <<CommandArg(Dot, StrWith(Expansion(<<"v">>)))>>
      [] name = "nested" -> <<CommandArg(Dot, Subst(Command(<<"c">>)))>>
      [] name = "a marked" ->
            <<CommandArgs(Dot, Word(<<"a">>), Subst(Command(<<"c">>))),
              Ws(<<" ">>), Comment(Marker)>>
      [] name = "semi sub" ->
            <<CommandArg(<<"e">>, Subst(Command(<<"c">>))), Semi,
              Ws(<<" ">>), Comment(Marker)>>
      [] name = "a sub"  -> <<CommandArg(Dot, Word(<<"a">>)), Ws(NL)>> \o MarkedSub
      [] name = "up a"   -> <<CommandArg(Dot, Word(<<".", ".", "/", "a">>))>>
      [] name = "self b" -> <<CommandArg(Dot, Word(<<"b">>))>>
      [] name = "up x"   ->
            <<CommandArg(Dot, Word(<<".", ".", "/", ".", ".", "/", "o", "/", "x">>))>>

Selector(sel) == IF sel = "a" THEN <<"#", "!", "a">> ELSE <<"#", "!", "b">>

Doc(id) ==
    Document((IF id.sel = "none" THEN <<>>
              ELSE <<Comment(Selector(id.sel)), Ws(NLs(id.gap))>>)
             \o Body(id.body))

DocId(sel, gap, body) == [sel |-> sel, gap |-> gap, body |-> body]

\* the texts bundle() may be given on stdin, with /r as directory
RootMenu ==
    {DocId("a", g, "e") : g \in 1..MaxGap}
    \cup {DocId("a", g, "none") : g \in 0..MaxGap}
    \cup {DocId("none", 0, b) : b \in {"e", "a", "late sel", "end sel"}}
    \cup {DocId("a", 1, b) :
            b \in {"a", "a a", "a b", "b a", "x", "n", "d", "sub", "a sub",
                   "unmarked", "other comment", "sel", "raw", "expansion",
                   "bare", "quoted expansion", "nested", "a marked",
                   "semi sub"}}
    \cup {DocId("b", 1, "a")}

\* the contents /r/a may have
MenuA ==
    {DocId("a", g, "f") : g \in 1..MaxGap}
    \cup {DocId("b", 1, "f"), DocId("none", 0, "f")}
    \cup {DocId("a", 1, b) : b \in {"b", "a", "sub"}}

\* the contents /r/d/b may have
MenuB ==
    {DocId("a", 1, b) : b \in {"g", "up a", "self b", "up x"}}
    \cup {DocId("b", 1, "g")}

\* the contents /o/x may have
MenuX == {DocId("a", 1, "h")}

Menu(path) ==
    IF path = FileA THEN MenuA ELSE IF path = FileB THEN MenuB ELSE MenuX

DocIds == RootMenu \cup MenuA \cup MenuB \cup MenuX

\* parse_file of every document of the model
Docs == [id \in DocIds |-> Doc(id)]

---------------------------------------------------------------------------
(* The Bundler.  Each element of `stack` is one active call of             *)
(* _bundle_from_string: the document, its directory, the path it was read  *)
(* from (None for the text given to bundle), the node the visit is at      *)
(* (0: the visit is over), found_shabang, the edits queued so far, and the *)
(* place in `directives` of the directive that made the call (0: none).    *)

Frame(doc, cwd, path, call) ==
    [doc |-> doc, cwd |-> cwd, path |-> path, node |-> 1,
     found_shabang |-> FALSE, edits |-> <<>>, call |-> call]

Running == result.tag = "running"

\* the innermost active call and its document
Top == Last(stack)

TopDoc == Docs[Top.doc]

\* the handler is about to be called on a node of kind k
AtKind(k) ==
    /\ Running
    /\ stack # <<>>
    /\ Top.node # 0
    /\ kind(TopDoc, Top.node) = k

\* the handler returned Ok(()): visit_node goes on
Advanced(frame) ==
    [frame EXCEPT !.node = visit_node(Docs[frame.doc], frame.node)]

\* a faulty variant of Queued: the edit is not kept
Queued_dropped(frame, e) == frame

\* edits.push(e)
Queued(frame, e) == [frame EXCEPT !.edits = Append(@, e)]

\* an error returned through every `?` up to bundle(): every call is abandoned
Fail(e) ==
    /\ result' = [tag |-> "err"] @@ e
    /\ stack' = <<>>

\* a faulty variant of shabang_differs: the selectors are compared by length
shabang_differs_in_length(saved, t) == Len(saved) # Len(t)

\* line 177: the comparison with the saved selector
shabang_differs(saved, t) == saved # t

\* a faulty variant of shabang_edit: the edit ends where the comment ends
shabang_edit_to_end(d, n) == Edit(start_byte(d, n), end_byte(d, n), <<>>)

\* a faulty variant of shabang_edit: the comment's text is put back by the edit
shabang_edit_kept(d, n) ==
    Edit(start_byte(d, n),
         IF next_sibling(d, n) # 0 THEN start_byte(d, next_sibling(d, n))
         ELSE end_byte(d, n),
         text(d, n))

\* lines 190-197: the edit that removes the selector comment
shabang_edit(d, n) ==
    Edit(start_byte(d, n),
         IF next_sibling(d, n) # 0 THEN start_byte(d, next_sibling(d, n))
         ELSE end_byte(d, n),
         <<>>)

\* lines 163-199: the handler on a comment node
HandleComment ==
    /\ AtKind("comment")
    /\ LET d == TopDoc
           n == Top.node
           t == text(d, n)
       IN  IF ~starts_with(t, <<"#", "!">>)
           THEN /\ stack' = Append(Front(stack), Advanced(Top))
                /\ UNCHANGED <<shabang, result>>
           ELSE IF Top.found_shabang
           THEN /\ Fail([kind |-> "SelectorDuplicate"])
                /\ UNCHANGED shabang
           ELSE IF row(d, n) # 0
           THEN /\ Fail([kind |-> "SelectorMisplaced"])
                /\ UNCHANGED shabang
           ELSE IF shabang.some /\ shabang_differs(shabang.val, t)
           THEN /\ Fail([kind |-> "SelectorConflict",
                         first |-> shabang.val, second |-> t])
                /\ UNCHANGED shabang
           ELSE /\ shabang' = IF shabang.some THEN shabang ELSE Some(t)
                /\ stack' = Append(Front(stack),
                        Advanced(Queued([Top EXCEPT !.found_shabang = TRUE],
                                        shabang_edit(d, n))))
                /\ UNCHANGED result
    /\ UNCHANGED <<visiting, visited, fs, reads, execs, returned, directives,
                   input>>
    /\ UNCHANGED editVars

\* lines 201-207: the command is an include directive
is_source(d, n) ==
    /\ child(d, n, 0) # 0
    /\ text(d, child(d, n, 0)) \in {SourceWord, Dot}

\* lines 208-218: the literal path of the directive, or None
path_str(d, n) ==
    LET arg == child(d, n, 1)
    IN  IF arg = 0 THEN None
        ELSE IF kind(d, arg) = "word" THEN Some(text(d, arg))
        ELSE IF kind(d, arg) = "string"
             THEN Some(Slice(text(d, arg), 1, Len(text(d, arg)) - 1))
        ELSE None

\* a faulty variant of visited_contains: the visited set is never consulted
visited_contains_never(set, path) == FALSE

\* line 224: visited.contains(&path)
visited_contains(set, path) == path \in set

\* lines 227-237: format!("# source {}\n\n{}\n\n#########", rel, out)
source_block(rel, out) ==
    <<"#", " ", "s", "o", "u", "r", "c", "e", " ">> \o rel \o NL \o NL
    \o out \o NL \o NL
    \o <<"#", "#", "#", "#", "#", "#", "#", "#", "#">>

\* the handler is about to be called on an include directive
AtSource == AtKind("command") /\ is_source(TopDoc, Top.node)

\* line 220: the canonical path an include directive with a literal
\* argument resolves to, or None
Target ==
    IF AtSource /\ path_str(TopDoc, Top.node).some
    THEN canonicalize(join(Top.cwd, path_str(TopDoc, Top.node).val))
    ELSE None

\* the directive reaches the call of _bundle_from_path (line 236)
Calls ==
    /\ Target.some
    /\ ~visited_contains(visited, Target.val)
    /\ strip_prefix(Target.val, RootDir).some

\* lines 200-207: the handler on a command that is no include directive
HandleCommand ==
    /\ AtKind("command")
    /\ ~is_source(TopDoc, Top.node)
    /\ stack' = Append(Front(stack), Advanced(Top))
    /\ UNCHANGED <<shabang, visiting, visited, result, fs, reads, execs,
                   returned, directives, input>>
    /\ UNCHANGED editVars

\* lines 207-246: the handler on an include directive that ends without a
\* call of _bundle_from_path: an error, or an already visited file
HandleSource ==
    /\ AtSource
    /\ ~Calls
    /\ LET d == TopDoc
           n == Top.node
       IN  IF ~path_str(d, n).some
           THEN /\ Fail([kind |-> "UnresolvableIncludeArgument"])
                /\ UNCHANGED directives
           ELSE IF ~Target.some
           THEN /\ Fail([kind |-> "UnresolvableIncludeArgument",
                         path_str |-> path_str(d, n).val])
                /\ UNCHANGED directives
           ELSE IF visited_contains(visited, Target.val)
           THEN /\ stack' = Append(Front(stack),
                        Advanced(Queued(Top,
                            Edit(start_byte(d, n), end_byte(d, n), <<>>))))
                /\ directives' = Append(directives,
                        [path |-> Target.val, edit |-> Some(<<>>)])
                /\ UNCHANGED result
           ELSE /\ Fail([kind |-> "IncludeOutsideRoot",
                         path_str |-> path_str(d, n).val])
                /\ directives' = Append(directives,
                        [path |-> Target.val, edit |-> None])
    /\ UNCHANGED <<shabang, visiting, visited, fs, reads, execs, returned,
                   input>>
    /\ UNCHANGED editVars

\* lines 136-147: _bundle_from_path up to its call of _bundle_from_string.
\* A file's content is fixed by its first read.
BundleFromPath ==
    /\ AtSource
    /\ Calls
    /\ directives' = Append(directives, [path |-> Target.val, edit |-> None])
    /\ LET path == Target.val
       IN  IF contains(visiting, path)
           THEN /\ Fail([kind |-> "CircularInclude"])
                /\ UNCHANGED <<visiting, fs, reads>>
           ELSE /\ visiting' = Append(visiting, path)
                /\ IF path \notin Files
                   THEN \* fs::read_to_string of a directory
                        /\ Fail([kind |-> "Io"])
                        /\ UNCHANGED <<fs, reads>>
                   ELSE /\ reads' = Append(reads, path)
                        /\ \E doc \in Menu(path) :
                              /\ fs[path].some => doc = fs[path].val
                              /\ fs' = [fs EXCEPT ![path] = Some(doc)]
                              /\ stack' = Append(stack,
                                    Frame(doc, path_parent(path).val,
                                          Some(path), Len(directives) + 1))
                        /\ UNCHANGED result
    /\ UNCHANGED <<shabang, visited, execs, returned, input>>
    /\ UNCHANGED editVars

\* lines 249-256: the sibling a command substitution is judged by (0: none)
marker_sibling(d, n) ==
    IF next_named_sibling(d, n) # 0 THEN next_named_sibling(d, n)
    ELSE IF parent(d, n) # 0 THEN next_named_sibling(d, parent(d, n))
    ELSE 0

\* a faulty variant of is_marked: the text of the comment is not compared
is_marked_by_any_comment(d, n) ==
    /\ marker_sibling(d, n) # 0
    /\ kind(d, marker_sibling(d, n)) = "comment"

\* line 258: the substitution is marked
is_marked(d, n) ==
    /\ marker_sibling(d, n) # 0
    /\ kind(d, marker_sibling(d, n)) = "comment"
    /\ text(d, marker_sibling(d, n)) = Marker

\* lines 259-260: the text between `$(` and `)`
inner_command(d, n) == Slice(text(d, n), 2, Len(text(d, n)) - 1)

\* line 283: format!("$(echo '{}' | base64 -d)", encoded_output)
decode_block(encoded) ==
    <<"$", "(", "e", "c", "h", "o", " ", "'">> \o encoded
    \o <<"'", " ", "|", " ", "b", "a", "s", "e", "6", "4", " ", "-", "d", ")">>

\* what running a sub-command can give: the spawn fails; or it exits with a
\* status and a stdout, its stderr being empty, UTF-8 or not UTF-8
Outputs ==
    {[spawned |-> FALSE]}
    \cup [spawned : {TRUE}, status : ExitStatuses, stdout : Stdouts,
          stderr : {"empty", "utf8", "invalid"}]

\* lines 248-293: the handler on a command substitution
HandleSubstitution ==
    /\ AtKind("command_substitution")
    /\ LET d == TopDoc
           n == Top.node
       IN  IF ~is_marked(d, n)
           THEN /\ stack' = Append(Front(stack), Advanced(Top))
                /\ UNCHANGED <<result, execs>>
           ELSE \E output \in Outputs :
                  IF ~output.spawned
                  THEN /\ Fail([kind |-> "Io"])
                       /\ UNCHANGED execs
                  ELSE /\ execs' = Append(execs,
                              [command |-> inner_command(d, n),
                               status |-> output.status,
                               stdout |-> output.stdout,
                               returned |-> Len(returned)])
                       /\ IF ~success(output.status)
                          THEN Fail([kind |-> "SubcommandFailure",
                                     command |-> inner_command(d, n),
                                     status |-> output.status])
                          ELSE IF output.stderr = "invalid"
                          THEN Fail([kind |-> "Io"])
                          ELSE /\ stack' = Append(Front(stack),
                                     Advanced(Queued(Queued(Top,
                                         Edit(start_byte(d, n), end_byte(d, n),
                                              decode_block(encode(output.stdout)))),
                                         Edit(start_byte(d, marker_sibling(d, n)),
                                              end_byte(d, marker_sibling(d, n)),
                                              <<>>))))
                               /\ UNCHANGED result
    /\ UNCHANGED <<shabang, visiting, visited, fs, reads, returned, directives,
                   input>>
    /\ UNCHANGED editVars

\* line 294: every other kind of node is inert
HandleOther ==
    /\ Running
    /\ stack # <<>>
    /\ Top.node # 0
    /\ kind(TopDoc, Top.node) \notin {"comment", "command", "command_substitution"}
    /\ stack' = Append(Front(stack), Advanced(Top))
    /\ UNCHANGED <<shabang, visiting, visited, result, fs, reads, execs,
                   returned, directives, input>>
    /\ UNCHANGED editVars

\* lines 300-304: the end of _bundle_from_string, once the visit is over
finish_string(frame) ==
    IF ~frame.found_shabang THEN [tag |-> "err", kind |-> "ShabangRequired"]
    ELSE apply_edits(Docs[frame.doc].source, frame.edits)

\* lines 300-304 of the included document, lines 149-151 of
\* _bundle_from_path, then lines 227-245 and the rest of the visit of the
\* including document
Return ==
    /\ Running
    /\ Len(stack) > 1
    /\ Top.node = 0
    /\ LET out == finish_string(Top)
           caller == stack[Len(stack) - 1]
           d == Docs[caller.doc]
           n == caller.node
           path == Top.path.val
           content == source_block(to_str(strip_prefix(path, RootDir).val),
                                   out.text)
       IN  IF out.tag # "ok"
           THEN /\ result' = out
                /\ stack' = <<>>
                /\ UNCHANGED <<visiting, visited, returned, directives>>
           ELSE /\ visiting' = Front(visiting)
                /\ visited' = visited \cup {path}
                /\ returned' = Append(returned,
                        [path |-> Top.path, text |-> out.text])
                /\ directives' =
                        [directives EXCEPT ![Top.call].edit = Some(content)]
                /\ stack' = Append(SubSeq(stack, 1, Len(stack) - 2),
                        Advanced(Queued(caller,
                            Edit(start_byte(d, n), end_byte(d, n), content))))
                /\ UNCHANGED result
    /\ UNCHANGED <<shabang, fs, reads, execs, input>>
    /\ UNCHANGED editVars

\* lines 130-134: bundle(), once the visit of the root document is over
Bundle ==
    /\ Running
    /\ Len(stack) = 1
    /\ Top.node = 0
    /\ LET out == finish_string(Top)
       IN  IF out.tag # "ok"
           THEN /\ result' = out
                /\ UNCHANGED returned
           ELSE /\ returned' = Append(returned,
                        [path |-> Top.path, text |-> out.text])
                /\ result' =
                     IF ~shabang.some
                     THEN [tag |-> "err", kind |-> "ShabangMissing"]
                     ELSE [tag |-> "ok",
                           text |-> shabang.val \o NL \o NL \o out.text]
    /\ stack' = <<>>
    /\ UNCHANGED <<shabang, visiting, visited, fs, reads, execs, directives,
                   input>>
    /\ UNCHANGED editVars

\* main, lines 49-70: the text comes from stdin, or from the file /r/a;
\* either way its directory is the root directory /r
Init ==
    /\ \E file \in {None, Some(FileA)} :
       \E doc \in (IF file.some THEN Menu(file.val) ELSE RootMenu) :
          /\ stack = <<Frame(doc, RootDir, None, 0)>>
          /\ fs = [f \in Files |-> IF file = Some(f) THEN Some(doc) ELSE None]
          /\ input = [doc |-> doc, file |-> file]
    /\ shabang = None
    /\ visiting = <<>>
    /\ visited = {}
    /\ result = [tag |-> "running"]
    /\ reads = <<>>
    /\ execs = <<>>
    /\ returned = <<>>
    /\ directives = <<>>
    /\ ae_source = <<>>
    /\ ae_edits = <<>>
    /\ ae_result = [tag |-> "none"]

Next ==
    \/ HandleComment
    \/ HandleCommand
    \/ HandleSource
    \/ BundleFromPath
    \/ HandleSubstitution
    \/ HandleOther
    \/ Return
    \/ Bundle

Spec == Init /\ [][Next]_vars

\* the run as the processor executes it: bundle() is one sequential call,
\* every step of which is taken as long as one is possible (every file read
\* returns and every sub-command run by line 261 exits)
SpecLive == Spec /\ WF_vars(Next)

---------------------------------------------------------------------------
(* apply_edits on its own: every list of up to MaxEdits edits of a text    *)

EditText == <<"a", "b">>

\* what an edit may put in place of its range: nothing, one byte, two bytes
NewContents == {<<>>, <<"X">>, <<"Y", "Z">>}

\* every edit of the text: a half-open range within it and a new content
EditSet ==
    UNION {{Edit(s, e, c) : e \in s..Len(EditText), c \in NewContents} :
              s \in 0..Len(EditText)}

InitEdits ==
    /\ ae_source = EditText
    /\ ae_edits \in SeqsUpTo(EditSet, MaxEdits)
    /\ ae_result = [tag |-> "none"]
    /\ shabang = None
    /\ visiting = <<>>
    /\ visited = {}
    /\ stack = <<>>
    /\ result = [tag |-> "none"]
    /\ fs = [f \in Files |-> None]
    /\ reads = <<>>
    /\ execs = <<>>
    /\ returned = <<>>
    /\ directives = <<>>
    /\ input = [doc |-> None, file |-> None]

ApplyEdits ==
    /\ ae_result.tag = "none"
    /\ ae_result' = apply_edits(ae_source, ae_edits)
    /\ UNCHANGED <<ae_source, ae_edits>>
    /\ UNCHANGED bundlerVars

SpecEdits == InitEdits /\ [][ApplyEdits]_vars

---------------------------------------------------------------------------
(* The claims                                                              *)

\* the path lies in the root directory
InsideRoot(path) ==
    Len(RootDir) <= Len(path) /\ SubSeq(path, 1, Len(RootDir)) = RootDir

\* the places in `directives` of the directives that resolved to path p
DirectivesTo(p) == {i \in 1..Len(directives) : directives[i].path = p}

Min(S) == CHOOSE x \in S : \A y \in S : x <= y

\* C1: whenever the handler is called on an include directive that resolves
\* to a canonical path that is on the visiting stack, that call ends the run
\* with the circular-dependency error: no file is read, nothing is pushed on
\* visiting, and no edit (empty or not) is queued for the directive.
C1_CycleAborts ==
    [][(Target.some /\ Target.val \in Range(visiting)) =>
          /\ result' = [tag |-> "err", kind |-> "CircularInclude"]
          /\ reads' = reads
          /\ visiting' = visiting
          /\ Last(directives').path = Target.val
          /\ Last(directives').edit = None]_vars

\* a cycle through two files has been caught: A sources B sources A
C1_Witness ==
    /\ result.tag = "err"
    /\ result.kind = "CircularInclude"
    /\ Len(visiting) >= 2

\* C2: in a successful run, for every canonical path some include directive
\* resolved to, the first directive reached that resolved to it was replaced
\* by the block holding the file's bundled text, every later one by the
\* empty string, the file was read once, and the block's header line occurs
\* once in the output.
C2_InlinedOnce ==
    result.tag = "ok" =>
        \A p \in {directives[i].path : i \in 1..Len(directives)} :
            LET first == Min(DirectivesTo(p))
                rel   == SubSeq(p, Len(RootDir) + 1, Len(p))
                head  == <<"#", " ", "s", "o", "u", "r", "c", "e", " ">>
                         \o to_str(rel) \o NL
            IN  /\ directives[first].edit.some
                /\ starts_with(directives[first].edit.val, head)
                /\ \E k \in 1..Len(returned) :
                      /\ returned[k].path = Some(p)
                      /\ directives[first].edit.val =
                            head \o NL \o returned[k].text \o NL \o NL
                            \o <<"#", "#", "#", "#", "#", "#", "#", "#", "#">>
                /\ \A i \in DirectivesTo(p) \ {first} :
                      directives[i].edit = Some(<<>>)
                /\ Cardinality({k \in 1..Len(reads) : reads[k] = p}) = 1
                /\ CountOcc(result.text, head) = 1

\* a successful run in which two directives resolved to the same file
C2_Witness ==
    /\ result.tag = "ok"
    /\ \E i, j \in 1..Len(directives) :
          i < j /\ directives[i].path = directives[j].path

\* C3 (as claimed): a run fails for a missing selector only when no file of
\* the inclusion graph declares one.
C3_MissingOnlyWhenNoneDeclared ==
    (result.tag = "err" /\ result.kind \in {"ShabangRequired", "ShabangMissing"})
        => ~shabang.some

\* the handler is called on a selector comment that passes the two initial
\* checks: the first `#!` comment of its document, on row 0
AtValidSelector ==
    /\ AtKind("comment")
    /\ starts_with(text(TopDoc, Top.node), <<"#", "!">>)
    /\ ~Top.found_shabang
    /\ row(TopDoc, Top.node) = 0

\* C4: when a document's selector differs from the run-wide selector, the
\* run ends with the conflict error naming the run-wide selector and the
\* differing text; when it is byte-identical, or none is set yet, the run
\* goes on; and once set the run-wide selector never changes.
C4_SelectorConflict ==
    [][/\ (AtValidSelector /\ shabang.some
              /\ shabang.val # text(TopDoc, Top.node)) =>
            result' = [tag |-> "err", kind |-> "SelectorConflict",
                       first |-> shabang.val,
                       second |-> text(TopDoc, Top.node)]
       /\ (AtValidSelector /\ shabang.some
              /\ shabang.val = text(TopDoc, Top.node)) =>
            (result'.tag = "running" /\ shabang' = shabang)
       /\ (AtValidSelector /\ ~shabang.some) =>
            (result'.tag = "running"
                /\ shabang' = Some(text(TopDoc, Top.node)))
       /\ shabang.some => shabang' = shabang]_vars

\* a conflict between the selector of one file and that of another
C4_Witness ==
    /\ result.tag = "err"
    /\ result.kind = "SelectorConflict"
    /\ result.first # result.second
    /\ Len(reads) >= 1

\* the document bundle() was given
InputDoc == Docs[input.doc]

\* the `#!` comments of a document
SelectorNodes(d) ==
    {n \in 1..Len(d.nodes) :
        kind(d, n) = "comment" /\ starts_with(text(d, n), <<"#", "!">>)}

\* a document with no include directive, no marked substitution and exactly
\* one selector comment, on its first line
PlainWithSelector(d) ==
    /\ \A n \in 1..Len(d.nodes) :
          /\ ~(kind(d, n) = "command" /\ is_source(d, n))
          /\ ~(kind(d, n) = "command_substitution" /\ is_marked(d, n))
    /\ Cardinality(SelectorNodes(d)) = 1
    /\ \A n \in SelectorNodes(d) : row(d, n) = 0

TheSelector(d) == CHOOSE n \in SelectorNodes(d) : TRUE

\* C5 (as claimed): for a document with no directive and one first-line
\* selector, bundle returns the selector, two line breaks, and the text with
\* only the selector and the single line break after it removed.
C5_SelectorLineRemoved ==
    (PlainWithSelector(InputDoc) /\ ~Running) =>
        LET d     == InputDoc
            c     == TheSelector(d)
            after == Slice(d.source, end_byte(d, c), Len(d.source))
            rest  == IF after # <<>> /\ Head(after) = "\n"
                     THEN Tail(after) ELSE after
        IN  result = [tag |-> "ok",
                      text |-> text(d, c) \o NL \o NL
                               \o Slice(d.source, 0, start_byte(d, c)) \o rest]

\* C5 (amended): for such a document bundle returns the selector, two line
\* breaks, and the text with the bytes from the start of the selector
\* comment to the start of the node that follows it removed (the selector
\* and all the white space and line breaks before the next construct), or
\* with only the selector comment removed when no node follows it.
C5_SelectorSpanRemoved ==
    (PlainWithSelector(InputDoc) /\ ~Running) =>
        LET d   == InputDoc
            c   == TheSelector(d)
            nxt == {n \in 1..Len(d.nodes) :
                        n > c /\ d.nodes[n].parent = d.nodes[c].parent}
            cut == IF nxt = {} THEN d.nodes[c].end ELSE d.nodes[Min(nxt)].start
        IN  result = [tag |-> "ok",
                      text |-> text(d, c) \o NL \o NL
                               \o Slice(d.source, 0, start_byte(d, c))
                               \o Slice(d.source, cut, Len(d.source))]

\* a plain document with two line breaks after its selector has been bundled
C5_Witness ==
    /\ result.tag = "ok"
    /\ PlainWithSelector(InputDoc)
    /\ \E n \in 1..Len(InputDoc.nodes) :
          /\ n > TheSelector(InputDoc)
          /\ start_byte(InputDoc, n) >= end_byte(InputDoc, TheSelector(InputDoc)) + 2

\* two edits share a byte, or one is an insertion strictly inside the other
Overlap(a, b) == a.start_byte < b.end_byte /\ b.start_byte < a.end_byte

PairwiseDisjoint(es) ==
    \A i, j \in 1..Len(es) : i < j => ~Overlap(es[i], es[j])

\* every reordering of a list
Reorderings(es) ==
    {[i \in 1..Len(es) |-> es[f[i]]] :
        f \in {g \in [1..Len(es) -> 1..Len(es)] :
                  \A i, j \in 1..Len(es) : g[i] = g[j] => i = j}}

\* C6 (as claimed): for pairwise non-overlapping edits, zero-length ranges
\* included, every permutation of the list gives the same outcome.
C6_OrderIndependent ==
    (ae_result.tag # "none" /\ PairwiseDisjoint(ae_edits)) =>
        \A q \in Reorderings(ae_edits) : apply_edits(ae_source, q) = ae_result

\* C7: when two edits of the list overlap in original-text coordinates,
\* apply_edits returns the "edits are not disjoint" error and no text, in
\* whatever order the edits were inserted.
C7_OverlapRejected ==
    (ae_result.tag # "none" /\ ~PairwiseDisjoint(ae_edits)) =>
        ae_result = [tag |-> "err", kind |-> "EditsOverlap"]

\* overlapping edits, inserted out of order, were rejected
C7_Witness ==
    /\ ae_result.tag = "err"
    /\ Len(ae_edits) = 3
    /\ ae_edits[1].start_byte > ae_edits[3].start_byte
    /\ Overlap(ae_edits[1], ae_edits[3])
    /\ ~Overlap(ae_edits[1], ae_edits[2])

\* C8: a directive whose canonical path is not below the root directory
\* ends the run with an error in that very step, with nothing read, pushed
\* on visiting or inserted into visited; so no path outside the root is
\* ever on visiting, in visited, read, or replaced by a non-empty block.
C8_OutsideRootRejected ==
    [][/\ (Target.some /\ ~InsideRoot(Target.val)) =>
            /\ result'.tag = "err"
            /\ result'.kind = "IncludeOutsideRoot"
            /\ reads' = reads
            /\ visiting' = visiting
            /\ visited' = visited
       /\ \A p \in Range(visiting') \cup visited' \cup Range(reads') :
            InsideRoot(p)
       /\ \A i \in 1..Len(directives') :
            directives'[i].edit \notin {None, Some(<<>>)}
                => InsideRoot(directives'[i].path)]_vars

\* an included file's directive to a file outside the root was rejected
C8_Witness ==
    /\ result.tag = "err"
    /\ result.kind = "IncludeOutsideRoot"
    /\ visiting # <<>>

\* C9: once a marked sub-command has exited with a non-zero status, the run
\* has ended with the error naming that command and that status, every
\* document that was being bundled is abandoned with its queued edits
\* unapplied, and no document has returned bundled text since.
C9_FailedSubcommandAborts ==
    \A i \in 1..Len(execs) :
        execs[i].status # 0 =>
            /\ i = Len(execs)
            /\ result = [tag |-> "err", kind |-> "SubcommandFailure",
                         command |-> execs[i].command,
                         status |-> execs[i].status]
            /\ stack = <<>>
            /\ Len(returned) = execs[i].returned

\* a sub-command of an included file failed
C9_Witness ==
    /\ result.tag = "err"
    /\ result.kind = "SubcommandFailure"
    /\ visiting # <<>>
    /\ execs # <<>>
    /\ Last(execs).status # 0

\* C10: in every successful output the run-wide selector is the first line
\* and occurs nowhere else, and the text returned for every document of the
\* run (root and included) holds no `#!` at all.
C10_SelectorOnceOnTop ==
    result.tag = "ok" =>
        /\ shabang.some
        /\ starts_with(result.text, shabang.val \o NL)
        /\ CountOcc(result.text, shabang.val) = 1
        /\ CountOcc(result.text, <<"#", "!">>) = 1
        /\ \A k \in 1..Len(returned) :
              CountOcc(returned[k].text, <<"#", "!">>) = 0

\* a successful bundle of a root and two files, each with its selector
C10_Witness ==
    /\ result.tag = "ok"
    /\ Cardinality(Range(reads)) >= 2
    /\ \A f \in Range(reads) : fs[f].val.sel # "none"

\* node m lies inside node n of document d
RECURSIVE Under(_, _, _)
Under(d, m, n) ==
    IF parent(d, m) = 0 THEN FALSE
    ELSE parent(d, m) = n \/ Under(d, parent(d, m), n)

\* the argument of the directive at node n is a bare word or a double- or
\* single-quoted literal, with no expansion or substitution inside it
LiteralArgument(d, n) ==
    LET arg == child(d, n, 1)
    IN  /\ arg # 0
        /\ d.nodes[arg].kind \in {"word", "string", "raw_string"}
        /\ \A m \in 1..Len(d.nodes) :
              Under(d, m, arg) =>
                 d.nodes[m].kind \notin {"simple_expansion", "expansion",
                                         "command_substitution"}

\* C11 (as claimed): an include directive is resolved if and only if its
\* argument is a bare word or a double- or single-quoted literal; with any
\* other argument, or none, the call ends the run with the argument error
\* before a path is resolved.
C11_LiteralArgumentsOnly ==
    [][AtSource =>
         (LiteralArgument(TopDoc, Top.node) <=>
            result' # [tag |-> "err", kind |-> "UnresolvableIncludeArgument"])]_vars

\* the line breaks of document d before byte offset k
LineOf(d, k) == Len(SelectSeq(SubSeq(d.source, 1, k), LAMBDA c : c = "\n"))

\* the documents whose bundled text is part of the result: the text given
\* to bundle() and every file that was inlined
BundledDocs == {Docs[input.doc]} \cup {Docs[fs[p].val] : p \in visited}

\* C12: when the handler is called on a `#!` comment that does not start on
\* the first line of its document, or that follows another `#!` comment of
\* the same document, the call ends the run with an error; so in every
\* successful run each bundled document has at most one `#!` comment, and
\* that comment starts on the document's first line.
C12_SelectorFirstLineOnce ==
    [][/\ (/\ AtKind("comment")
           /\ starts_with(text(TopDoc, Top.node), <<"#", "!">>)
           /\ \/ LineOf(TopDoc, start_byte(TopDoc, Top.node)) # 0
              \/ \E m \in SelectorNodes(TopDoc) : m < Top.node)
          => /\ result'.tag = "err"
             /\ result'.kind \in {"SelectorDuplicate", "SelectorMisplaced"}
             /\ result'.kind = "SelectorDuplicate" <=>
                   \E m \in SelectorNodes(TopDoc) : m < Top.node
       /\ result'.tag = "ok" =>
             \A d \in BundledDocs' :
                /\ Cardinality(SelectorNodes(d)) <= 1
                /\ \A n \in SelectorNodes(d) : LineOf(d, start_byte(d, n)) = 0]_vars

\* a document whose `#!` comment is on its second line was rejected
C12_Witness ==
    /\ result = [tag |-> "err", kind |-> "SelectorMisplaced"]
    /\ \E n \in SelectorNodes(InputDoc) :
          LineOf(InputDoc, start_byte(InputDoc, n)) = 1

\* the nodes that follow node n under the same parent: all, or the named
SiblingsAfter(d, n, namedOnly) ==
    {m \in 1..Len(d.nodes) :
        /\ m > n
        /\ d.nodes[n].parent # 0
        /\ d.nodes[m].parent = d.nodes[n].parent
        /\ namedOnly => d.nodes[m].named}

\* the sibling a substitution is judged by: its own next sibling, otherwise
\* its parent's next sibling (0: none); among all nodes, or the named ones
RelevantSibling(d, n, namedOnly) ==
    IF SiblingsAfter(d, n, namedOnly) # {}
    THEN Min(SiblingsAfter(d, n, namedOnly))
    ELSE IF d.nodes[n].parent # 0
            /\ SiblingsAfter(d, d.nodes[n].parent, namedOnly) # {}
         THEN Min(SiblingsAfter(d, d.nodes[n].parent, namedOnly))
    ELSE 0

MarkerFollows(d, n, namedOnly) ==
    LET sib == RelevantSibling(d, n, namedOnly)
    IN  /\ sib # 0
        /\ d.nodes[sib].kind = "comment"
        /\ Slice(d.source, d.nodes[sib].start, d.nodes[sib].end) = Marker

\* the handler call on a substitution ran nothing and queued nothing
SubstitutionInert ==
    /\ execs' = execs
    /\ result' = result
    /\ Len(stack') = Len(stack)
    /\ Last(stack').edits = Top.edits

C14_QueuedEditsDisjoint ==
    /\ \A k \in 1..Len(stack) : PairwiseDisjoint(stack[k].edits)
    /\ ~(result.tag = "err" /\ result.kind = "EditsOverlap")

\* the new contents of a list of edits, one after the other
RECURSIVE Contents(_)
Contents(es) ==
    IF es = <<>> THEN <<>> ELSE Head(es).new_content \o Contents(Tail(es))

\* the text from byte offset p on, in which every edit's range is replaced
\* by its new content and every byte outside all ranges is kept; contents
\* put at the same offset come in the order of the list
RECURSIVE Replaced(_, _, _)
Replaced(src, es, p) ==
    IF p > Len(src) THEN <<>>
    ELSE Contents(SelectSeq(es, LAMBDA e : e.start_byte = p))
         \o (IF p < Len(src)
                /\ \A i \in 1..Len(es) :
                      ~(es[i].start_byte <= p /\ p < es[i].end_byte)
             THEN <<src[p + 1]>> ELSE <<>>)
         \o Replaced(src, es, p + 1)

\* C15 (as claimed): for every list of pairwise non-overlapping edits
\* apply_edits returns the text in which each edit's range is replaced by
\* its new content and every other byte is kept (new contents put at one
\* and the same offset may come in either order).
C15_RangesReplaced ==
    (ae_result.tag # "none" /\ PairwiseDisjoint(ae_edits)) =>
        /\ ae_result.tag = "ok"
        /\ ae_result.text \in
              {Replaced(ae_source, q, 0) : q \in Reorderings(ae_edits)}

\* the nodes of d are numbered in pre-order: a node comes after its parent,
\* and every node between the two lies inside the parent as well
NumberedInPreOrder(d) ==
    \A n \in 2..Len(d.nodes) :
        /\ d.nodes[n].parent \in 1..(n - 1)
        /\ \A m \in (d.nodes[n].parent + 1)..(n - 1) :
              Under(d, m, d.nodes[n].parent)

\* the node that follows n in pre-order (0: n is the last one)
PreOrderNext(d, n) == IF n < Len(d.nodes) THEN n + 1 ELSE 0

\* C16: the nodes of every document reach the handler in pre-order, each
\* after all its ancestors, the visit of an including document resuming
\* where it stopped once the included file has returned; and once the
\* handler has returned an error (in the root document or in an included
\* file) the run has ended with an error and makes no further step: no
\* handler call, no read, no sub-command.
C16_PreOrderFailFast ==
    [][/\ Running
       /\ NumberedInPreOrder(TopDoc)
       /\ result'.tag # "running" => stack' = <<>>
       /\ result'.tag = "ok" => (Len(stack) = 1 /\ Top.node = 0)
       /\ result'.tag = "err" => (reads' = reads /\ Len(execs') <= Len(execs) + 1)
       /\ result'.tag = "running" =>
            /\ Len(stack') \in {Len(stack) - 1, Len(stack), Len(stack) + 1}
            /\ Len(stack') = Len(stack) =>
                  /\ Top.node # 0
                  /\ Front(stack') = Front(stack)
                  /\ Last(stack').doc = Top.doc
                  /\ Last(stack').node = PreOrderNext(TopDoc, Top.node)
            /\ Len(stack') = Len(stack) + 1 =>
                  /\ Top.node # 0
                  /\ Front(stack') = stack
                  /\ Last(stack').node = 1
            /\ Len(stack') = Len(stack) - 1 =>
                  /\ Top.node = 0
                  /\ SubSeq(stack', 1, Len(stack) - 2)
                        = SubSeq(stack, 1, Len(stack) - 2)
                  /\ Last(stack').doc = stack[Len(stack) - 1].doc
                  /\ Last(stack').node =
                        PreOrderNext(Docs[stack[Len(stack) - 1].doc],
                                     stack[Len(stack) - 1].node)]_vars

\* the handler failed inside an included file while the document given to
\* bundle() still had an include directive that was never reached
C16_Witness ==
    /\ result.tag = "err"
    /\ result.kind \in {"SelectorConflict", "IncludeOutsideRoot",
                        "SubcommandFailure", "CircularInclude"}
    /\ visiting # <<>>
    /\ Len(reads) = 1
    /\ Cardinality({n \in 1..Len(InputDoc.nodes) :
                       InputDoc.nodes[n].kind = "command"
                       /\ is_source(InputDoc, n)}) = 2

\* C17: every run ends, with bundled text or with an error, whatever the
\* inclusion graph; and at every point the number of active calls of
\* _bundle_from_string is at most one more than the number of distinct
\* paths on visiting, each of them the canonical path of an existing file
\* or directory.
C17_Terminates ==
    /\ [](/\ Len(stack) <= Cardinality(Range(visiting)) + 1
          /\ Range(visiting) \subseteq Files \cup Dirs)
    /\ <>(result.tag \in {"ok", "err", "panic"})

\* a run over a cyclic graph (the file given includes a file that includes
\* it back) has ended at the greatest depth: one call for the text given
\* and one for each of the two files
C17_Witness ==
    /\ result.tag = "err"
    /\ result.kind = "CircularInclude"
    /\ input.file.some
    /\ Len(visiting) = 2
    /\ input.file.val \in Range(visiting)

\* C18: at every point of a run no path is twice on the visiting stack, and
\* no path is both on the visiting stack and in the visited set.
C18_VisitingVisitedApart ==
    /\ \A i, j \in 1..Len(visiting) : visiting[i] = visiting[j] => i = j
    /\ Range(visiting) \cap visited = {}

\* one file is being resolved while another is already inlined, and a
\* directive of the file being resolved has named the inlined one
C18_Witness ==
    /\ visiting # <<>>
    /\ visited # {}
    /\ Running
    /\ directives # <<>>
    /\ Last(directives).path \in visited
    /\ Last(directives).edit = Some(<<>>)
    /\ Len(stack) = 2

\* C19: _bundle_from_path reads a path only when that path is neither in
\* visited nor on visiting, and pushes it on visiting before the read; a
\* path that was read is on visiting or in visited from then on, whether the
\* run goes on, succeeds or fails; so no path is read twice in a run.
C19_ReadAtMostOnce ==
    [][/\ reads' # reads =>
            \E p \in Files :
               /\ reads' = Append(reads, p)
               /\ p \notin visited
               /\ p \notin Range(visiting)
               /\ p \in Range(visiting')
       /\ Range(reads') \subseteq Range(visiting') \cup visited'
       /\ \A i, j \in 1..Len(reads') : reads'[i] = reads'[j] => i = j]_vars

\* a run failed after one file was inlined and while another was being
\* resolved: both stay recorded
C19_Witness ==
    /\ result.tag = "err"
    /\ Len(reads) = 2
    /\ visited # {}
    /\ visiting # <<>>
    /\ Range(reads) = Range(visiting) \cup visited

\* C20: whenever the visit of a document is over, either no selector was
\* found in it, no edit was queued, and _bundle_from_string returns the
\* "A shabang is required" error without calling apply_edits; or a selector
\* was found and apply_edits is called with at least one edit and does not
\* panic.  Every document in which a selector was found has an edit queued.
C20_EditsNeverEmpty ==
    [][/\ (Running /\ stack # <<>> /\ Top.node = 0) =>
            IF Top.found_shabang
            THEN Top.edits # <<>> /\ result'.tag # "panic"
            ELSE result' = [tag |-> "err", kind |-> "ShabangRequired"]
       /\ \A k \in 1..Len(stack') :
            stack'[k].found_shabang => stack'[k].edits # <<>>]_vars

\* the visit of an included file is over and apply_edits is about to be
\* called with one edit only, the one that removes the selector
C20_Witness ==
    /\ Running
    /\ Len(stack) = 2
    /\ Top.node = 0
    /\ Top.found_shabang
    /\ Len(Top.edits) = 1
    /\ Top.edits[1].start_byte = 0
    /\ Top.edits[1].new_content = <<>>

============================================================================
